---- MODULE Spec2Model ----
(***************************************************************************)
(* Model of Inventory_System.py: a Streamlit script that is re-run from    *)
(* top to bottom on every user interaction of every browser session.       *)
(* Three JSON files are the only state shared between request cycles.      *)
(*                                                                         *)
(* Python values are tagged records: [t |-> "str", v |-> <<chars>>],       *)
(* [t |-> "int", v |-> n], [t |-> "list", v |-> <<values>>] and            *)
(* [t |-> "dict", v |-> <<<<key, value>>, ...>>] (insertion ordered, keys  *)
(* are character sequences).  A file is a sequence of JSON tokens.         *)
(***************************************************************************)
EXTENDS Integers, Sequences, FiniteSets, TLC

\* ------------------------------------------------------------------------
\* Bounds of the model
\* ------------------------------------------------------------------------
NumCategories == 2
MaxFrac == 1

\* ------------------------------------------------------------------------
\* Python values
\* ------------------------------------------------------------------------
PyStr(s) == [t |-> "str", v |-> s]
PyInt(n) == [t |-> "int", v |-> n]
PyList(xs) == [t |-> "list", v |-> xs]
PyDict(items) == [t |-> "dict", v |-> items]
EmptyDict == PyDict(<<>>)
EmptyList == PyList(<<>>)

IsDict(x) == x.t = "dict"

\* k in d
DictHas(d, k) == \E i \in 1..Len(d.v) : d.v[i][1] = k

DictIndex(d, k) == CHOOSE i \in 1..Len(d.v) : d.v[i][1] = k

\* d[k]
DictGet(d, k) == d.v[DictIndex(d, k)][2]

\* d.get(k, default)
DictGetDefault(d, k, default) == IF DictHas(d, k) THEN DictGet(d, k) ELSE default

\* d[k] = val : an existing key keeps its position, a new key goes last
DictSet(d, k, val) ==
    IF DictHas(d, k)
    THEN PyDict([d.v EXCEPT ![DictIndex(d, k)] = <<k, val>>])
    ELSE PyDict(Append(d.v, <<k, val>>))

DictKeys(d) == [i \in 1..Len(d.v) |-> d.v[i][1]]

KeySet(d) == {d.v[i][1] : i \in 1..Len(d.v)}

RECURSIVE SelectPairs(_, _, _)
SelectPairs(items, keep, i) ==
    IF i > Len(items) THEN <<>>
    ELSE IF i \in keep THEN <<items[i]>> \o SelectPairs(items, keep, i + 1)
    ELSE SelectPairs(items, keep, i + 1)

\* x in lst
ListHas(lst, x) == \E i \in 1..Len(lst.v) : lst.v[i] = x

\* lst.append(x)
ListAppend(lst, x) == PyList(Append(lst.v, x))

\* lst.remove(x) : removes the first occurrence
ListRemove(lst, x) ==
    LET i == CHOOSE j \in 1..Len(lst.v) :
                 lst.v[j] = x /\ \A h \in 1..(j - 1) : lst.v[h] # x
    IN PyList(SubSeq(lst.v, 1, i - 1) \o SubSeq(lst.v, i + 1, Len(lst.v)))

\* ------------------------------------------------------------------------
\* Strings used by the program
\* ------------------------------------------------------------------------
K_category == <<"c", "a", "t", "e", "g", "o", "r", "y">>
K_purchase_price == <<"p", "u", "r", "c", "h", "a", "s", "e", "_", "p", "r", "i", "c", "e">>
K_dealer_price == <<"d", "e", "a", "l", "e", "r", "_", "p", "r", "i", "c", "e">>
K_selling_price == <<"s", "e", "l", "l", "i", "n", "g", "_", "p", "r", "i", "c", "e">>
K_categories == <<"c", "a", "t", "e", "g", "o", "r", "i", "e", "s">>
K_password == <<"p", "a", "s", "s", "w", "o", "r", "d">>
K_role == <<"r", "o", "l", "e">>
S_Admin == <<"A", "d", "m", "i", "n">>
S_User == <<"U", "s", "e", "r">>
S_1234 == <<"1", "2", "3", "4">>
S_SelectACategory == <<"S", "e", "l", "e", "c", "t", " ", "a", " ", "C", "a", "t", "e", "g", "o", "r", "y">>

\* ------------------------------------------------------------------------
\* json.dump / json.load on token sequences
\* ------------------------------------------------------------------------
DigitChars == <<"0", "1", "2", "3", "4", "5", "6", "7", "8", "9">>

IntToTwoDigits(n) ==
    IF n < 10 THEN <<DigitChars[n + 1]>>
    ELSE <<DigitChars[((n \div 10) % 10) + 1], DigitChars[(n % 10) + 1]>>

RECURSIVE IntToDigits(_)
IntToDigits(n) ==
    IF n < 10 THEN <<DigitChars[n + 1]>>
    ELSE Append(IntToDigits(n \div 10), DigitChars[(n % 10) + 1])

DigitValue(c) == (CHOOSE i \in 1..10 : DigitChars[i] = c) - 1

RECURSIVE DigitsToInt(_)
DigitsToInt(ds) ==
    IF Len(ds) = 0 THEN 0
    ELSE 10 * DigitsToInt(SubSeq(ds, 1, Len(ds) - 1)) + DigitValue(ds[Len(ds)])

Punct(c) == [k |-> "punct", v |-> <<c>>]
StrTok(s) == [k |-> "str", v |-> s]
NumTok(ds) == [k |-> "num", v |-> ds]

RECURSIVE Dump(_), DumpMembers(_, _), DumpElements(_, _)
Dump(x) ==
    CASE x.t = "str" -> <<StrTok(x.v)>>
      [] x.t = "int" -> <<NumTok(IntToDigits(x.v))>>
      [] x.t = "list" -> <<Punct("[")>> \o DumpElements(x.v, 1) \o <<Punct("]")>>
      [] x.t = "dict" -> <<Punct("{")>> \o DumpMembers(x.v, 1) \o <<Punct("}")>>

DumpMembers(items, i) ==
    IF i > Len(items) THEN <<>>
    ELSE (IF i > 1 THEN <<Punct(",")>> ELSE <<>>)
         \o <<StrTok(items[i][1]), Punct(":")>> \o Dump(items[i][2])
         \o DumpMembers(items, i + 1)

DumpElements(xs, i) ==
    IF i > Len(xs) THEN <<>>
    ELSE (IF i > 1 THEN <<Punct(",")>> ELSE <<>>)
         \o Dump(xs[i]) \o DumpElements(xs, i + 1)

ParseFail == [ok |-> FALSE, val |-> EmptyDict, next |-> 0]
ParseOk(val, next) == [ok |-> TRUE, val |-> val, next |-> next]

IsTok(toks, i, tok) == i <= Len(toks) /\ toks[i] = tok

RECURSIVE ParseValue(_, _), ParseMembers(_, _, _), ParseElements(_, _, _)
ParseValue(toks, i) ==
    IF i > Len(toks) THEN ParseFail
    ELSE CASE toks[i].k = "str" -> ParseOk(PyStr(toks[i].v), i + 1)
           [] toks[i].k = "num" -> ParseOk(PyInt(DigitsToInt(toks[i].v)), i + 1)
           [] toks[i] = Punct("{") ->
                IF IsTok(toks, i + 1, Punct("}")) THEN ParseOk(EmptyDict, i + 2)
                ELSE ParseMembers(toks, i + 1, EmptyDict)
           [] toks[i] = Punct("[") ->
                IF IsTok(toks, i + 1, Punct("]")) THEN ParseOk(EmptyList, i + 2)
                ELSE ParseElements(toks, i + 1, EmptyList)
           [] OTHER -> ParseFail

ParseMembers(toks, i, acc) ==
    IF ~(i + 1 <= Len(toks) /\ toks[i].k = "str" /\ toks[i + 1] = Punct(":"))
    THEN ParseFail
    ELSE LET r == ParseValue(toks, i + 2) IN
         IF ~r.ok THEN ParseFail
         ELSE LET acc2 == DictSet(acc, toks[i].v, r.val) IN
              IF IsTok(toks, r.next, Punct(",")) THEN ParseMembers(toks, r.next + 1, acc2)
              ELSE IF IsTok(toks, r.next, Punct("}")) THEN ParseOk(acc2, r.next + 1)
              ELSE ParseFail

ParseElements(toks, i, acc) ==
    LET r == ParseValue(toks, i) IN
    IF ~r.ok THEN ParseFail
    ELSE LET acc2 == ListAppend(acc, r.val) IN
         IF IsTok(toks, r.next, Punct(",")) THEN ParseElements(toks, r.next + 1, acc2)
         ELSE IF IsTok(toks, r.next, Punct("]")) THEN ParseOk(acc2, r.next + 1)
         ELSE ParseFail

\* json.load: ok is FALSE where Python raises JSONDecodeError
JsonLoad(toks) ==
    LET r == ParseValue(toks, 1) IN
    IF r.ok /\ r.next = Len(toks) + 1 THEN r ELSE ParseFail

\* ------------------------------------------------------------------------
\* Files
\* ------------------------------------------------------------------------
MissingFile == [exists |-> FALSE, text |-> <<>>]
FileOf(toks) == [exists |-> TRUE, text |-> toks]

load_data_list(file) ==
    IF file.exists
    THEN LET r == JsonLoad(file.text) IN
         IF r.ok THEN r.val ELSE EmptyList
    ELSE EmptyDict

\* def load_data(file_path)
load_data(file) ==
    IF file.exists
    THEN LET r == JsonLoad(file.text) IN
         IF r.ok THEN r.val ELSE EmptyDict
    ELSE EmptyDict

\* def save_data(data, file_path)
save_data(data) == FileOf(Dump(data))

\* def hash_password(password)
hash_password(password) == <<"#">> \o password

PyNone == [t |-> "none", v |-> <<>>]
Admin == PyStr(S_Admin)

\* a non-empty str, list or dict is truthy
Truthy(x) == x # PyNone /\ Len(x.v) > 0

\* {k: v for k, v in d.items() if v["category"] <op> c}
CategoryIs(d, c) == {i \in 1..Len(d.v) : DictGet(d.v[i][2], K_category) = c}
KeepAll(d, c) == 1..Len(d.v)
CategoryIsNot(d, c) == {i \in 1..Len(d.v) : DictGet(d.v[i][2], K_category) # c}
FilterDict(d, keep) == PyDict(SelectPairs(d.v, keep, 1))

ProductDetails(category, purchase_price, dealer_price, selling_price) ==
    PyDict(<< <<K_category, category>>,
              <<K_purchase_price, PyInt(purchase_price)>>,
              <<K_dealer_price, PyInt(dealer_price)>>,
              <<K_selling_price, PyInt(selling_price)>> >>)

UserRecord(password, r) ==
    PyDict(<< <<K_password, PyStr(hash_password(password))>>, <<K_role, r>> >>)

\* ------------------------------------------------------------------------
\* What the users of the pages can type or select
\* ------------------------------------------------------------------------
Sessions == {1, 2}
CategoryChars == <<"a", "b", "c", "d">>
ProductNames == {<<"p">>, <<"q">>}
CategoryNames == {<<CategoryChars[i]>> : i \in 1..NumCategories}
NameInputs == {<<>>} \cup ProductNames
CategoryInputs == {<<>>} \cup CategoryNames
AddPriceInputs == {<<12, 12, 12>>, <<0, 12, 12>>, <<12, 0, 12>>, <<12, 12, 0>>}
UpdatePriceInputs == {<<0, 7, 105>>}
LoginNameInputs == {S_Admin, <<"u">>}
PasswordInputs == {S_1234, <<"x">>}
NewUserInputs == {S_Admin, <<"u">>}
NewPasswordInputs == {<<"x">>}
RoleOptions == {Admin, PyStr(S_User)}

AdminMenu == <<"Add New Product", "Update Product", "View All Products",
               "Manage Categories", "Generate CSV", "User Management">>
UserMenu == <<"All Products", "CSV Generate">>
Range(f) == {f[i] : i \in DOMAIN f}

VARIABLES
    productsFile,      \* product_prices.json
    categoriesFile,    \* categories.json
    usersFile,         \* database/users.json
    authenticated,     \* st.session_state.authenticated, per session
    username,          \* st.session_state.username
    role,              \* st.session_state.role
    pc,                \* where the script run of the session stands
    data,              \* main: data
    categories,        \* main: categories
    main_menu_choice,  \* main: main_menu_choice ("" outside the sidebar pages)
    selected_category, \* main: selected_category of the page
    clicked,           \* the button that returned True in this run ("" if none)
    message,           \* st.success / st.error / st.warning / st.info shown
    query_input,       \* Query page: the text typed
    similarity,        \* fuzz.token_set_ratio(query_input, name), per name
    calls,             \* number of calls of fuzz.token_set_ratio
    output             \* Query page: what st.write / st.warning showed

files == <<productsFile, categoriesFile, usersFile>>
session_state == <<authenticated, username, role>>
locals == <<data, categories, main_menu_choice, selected_category, clicked, message>>
query == <<query_input, similarity, calls, output>>
vars == <<files, session_state, pc, locals, query>>

MenuOptionsWithQuery(r) ==
    IF r = Admin THEN Range(AdminMenu) \cup {"Query Product Price"} ELSE Range(UserMenu)

\* def create_sidebar: the options of the radio
MenuOptions(r) == IF r = Admin THEN Range(AdminMenu) ELSE Range(UserMenu)

\* the locals of main() die when the run ends
ClearLocals(s) ==
    /\ data' = [data EXCEPT ![s] = EmptyDict]
    /\ categories' = [categories EXCEPT ![s] = EmptyList]
    /\ main_menu_choice' = [main_menu_choice EXCEPT ![s] = ""]
    /\ selected_category' = [selected_category EXCEPT ![s] = PyNone]
    /\ clicked' = [clicked EXCEPT ![s] = ""]
    /\ message' = [message EXCEPT ![s] = "none"]

\* the run of the page ends: the script returns from main()
Finish(s, choice, button, msg) ==
    /\ pc' = [pc EXCEPT ![s] = "done"]
    /\ main_menu_choice' = [main_menu_choice EXCEPT ![s] = choice]
    /\ clicked' = [clicked EXCEPT ![s] = button]
    /\ message' = [message EXCEPT ![s] = msg]

\* line 120
LoadProducts(s) ==
    /\ pc[s] = "start"
    /\ data' = [data EXCEPT ![s] = load_data(productsFile)]
    /\ pc' = [pc EXCEPT ![s] = "ld1"]
    /\ UNCHANGED <<files, session_state, categories, main_menu_choice,
                   selected_category, clicked, message, query>>

\* line 121: .get on anything but a dict raises
LoadCategories(s) ==
    /\ pc[s] = "ld1"
    /\ LET loaded == load_data(categoriesFile) IN
       IF IsDict(loaded)
       THEN /\ categories' = [categories EXCEPT ![s] =
                                 DictGetDefault(loaded, K_categories, EmptyList)]
            /\ pc' = [pc EXCEPT ![s] = "ld2"]
       ELSE /\ pc' = [pc EXCEPT ![s] = "raised"]
            /\ UNCHANGED categories
    /\ UNCHANGED <<files, session_state, data, main_menu_choice,
                   selected_category, clicked, message, query>>

\* def create_default_admin, then lines 126-129
create_default_admin(file) ==
    LET loaded == load_data(file)
        users == IF IsDict(loaded) THEN loaded ELSE EmptyDict
    IN IF ~DictHas(users, S_Admin)
       THEN save_data(DictSet(users, S_Admin, UserRecord(S_1234, Admin)))
       ELSE file

CreateDefaultAdmin(s) ==
    /\ pc[s] = "ld2"
    /\ usersFile' = create_default_admin(usersFile)
    /\ pc' = [pc EXCEPT ![s] = "main"]
    /\ UNCHANGED <<productsFile, categoriesFile, session_state, locals, query>>

\* def authenticate_user: the user record, or None
authenticate_user(file, name, password) ==
    LET users == load_data(file)
        user == DictGetDefault(users, name, PyNone)
    IN IF Truthy(user) /\ DictGet(user, K_password) = PyStr(hash_password(password))
       THEN user ELSE PyNone

role_always_admin(user) == Admin

\* line 141: user["role"]
role_of(user) == DictGet(user, K_role)

\* lines 132-145, the Login button pressed
Login(s) ==
    /\ pc[s] = "main"
    /\ ~authenticated[s]
    /\ \E name \in LoginNameInputs, password \in PasswordInputs :
         LET user == authenticate_user(usersFile, name, password) IN
         IF Truthy(user)
         THEN /\ authenticated' = [authenticated EXCEPT ![s] = TRUE]
              /\ username' = [username EXCEPT ![s] = PyStr(name)]
              /\ role' = [role EXCEPT ![s] = role_of(user)]
              /\ pc' = [pc EXCEPT ![s] = "start"]      \* st.rerun()
              /\ ClearLocals(s)
         ELSE /\ Finish(s, "", "Login", "error")
              /\ UNCHANGED <<session_state, data, categories, selected_category>>
    /\ UNCHANGED <<files, query>>

\* lines 132-136, no button pressed
RenderLogin(s) ==
    /\ pc[s] = "main"
    /\ ~authenticated[s]
    /\ Finish(s, "", "", "none")
    /\ UNCHANGED <<files, session_state, data, categories, selected_category, query>>

\* lines 93-97
Logout(s) ==
    /\ pc[s] = "main"
    /\ authenticated[s]
    /\ authenticated' = [authenticated EXCEPT ![s] = FALSE]
    /\ username' = [username EXCEPT ![s] = PyNone]
    /\ role' = [role EXCEPT ![s] = PyNone]
    /\ pc' = [pc EXCEPT ![s] = "start"]      \* st.rerun()
    /\ ClearLocals(s)
    /\ UNCHANGED <<files, query>>

\* lines 148-150: the radio returns one of its options; the page of the choice
\* is drawn and none of its buttons is pressed, or (line 150) the branch of
\* the Query page is entered
RenderPage(s) ==
    /\ pc[s] = "main"
    /\ authenticated[s]
    /\ \E choice \in MenuOptions(role[s]) :
         IF choice = "Query Product Price"
         THEN /\ pc' = [pc EXCEPT ![s] = "query"]
              /\ main_menu_choice' = [main_menu_choice EXCEPT ![s] = choice]
              /\ UNCHANGED <<clicked, message>>
         ELSE Finish(s, choice, "", "none")
    /\ UNCHANGED <<files, session_state, data, categories, selected_category, query>>

\* the script returned; the next interaction starts the next run
Return(s) ==
    /\ pc[s] = "done"
    /\ pc' = [pc EXCEPT ![s] = "start"]
    /\ ClearLocals(s)
    /\ UNCHANGED <<files, session_state, query>>

\* def signup: the users file afterwards
signup(file, name, password, r) ==
    LET users == load_data(file) IN
    IF DictHas(users, name) THEN file
    ELSE save_data(DictSet(users, name, UserRecord(password, r)))

\* lines 191-202, the Create User button pressed
CreateUser(s) ==
    /\ pc[s] = "main"
    /\ authenticated[s]
    /\ "User Management" \in MenuOptions(role[s])
    /\ role[s] = Admin
    /\ \E new_username \in NewUserInputs, new_password \in NewPasswordInputs, r \in RoleOptions :
         LET users == load_data(usersFile) IN
         /\ usersFile' = signup(usersFile, new_username, new_password, r)
         /\ Finish(s, "User Management", "Create User",
                   IF DictHas(users, new_username) THEN "error" ELSE "success")
    /\ UNCHANGED <<productsFile, categoriesFile, session_state,
                   data, categories, selected_category, query>>

\* lines 204-236 and 240-275, the Generate CSV button pressed
GenerateCSV(s) ==
    /\ pc[s] = "main"
    /\ authenticated[s]
    /\ \E choice \in MenuOptions(role[s]) \cap {"Generate CSV", "CSV Generate"},
          all \in BOOLEAN, columns \in BOOLEAN :
         \E c \in (IF all THEN {PyNone} ELSE Range(categories[s].v)) :
            LET filtered_data ==
                    IF all THEN data[s] ELSE FilterDict(data[s], CategoryIs(data[s], c))
            IN /\ choice = "Generate CSV" => role[s] = Admin
               /\ Truthy(filtered_data)
               /\ selected_category' = [selected_category EXCEPT ![s] = c]
               /\ Finish(s, choice, "Generate CSV",
                         IF columns THEN "success" ELSE "error")
    /\ UNCHANGED <<files, session_state, data, categories, query>>

valid_details_no_dealer(product_name, category, purchase_price, dealer_price, selling_price) ==
    /\ Len(product_name) > 0
    /\ category # PyStr(S_SelectACategory)
    /\ purchase_price > 0 /\ selling_price > 0

\* line 288
valid_details(product_name, category, purchase_price, dealer_price, selling_price) ==
    /\ Len(product_name) > 0
    /\ category # PyStr(S_SelectACategory)
    /\ purchase_price > 0 /\ selling_price > 0 /\ dealer_price > 0

assign_fresh(d, name, details) == PyDict(<< <<name, details>> >>)

\* lines 289-294 and 317-322: data[name] = {...}
assign(d, name, details) == DictSet(d, name, details)

\* lines 279-298, the Add Product button pressed
AddProduct(s) ==
    /\ pc[s] = "main"
    /\ authenticated[s]
    /\ "Add New Product" \in MenuOptions(role[s])
    /\ role[s] = Admin
    /\ \E product_name \in NameInputs,
          category \in {PyStr(S_SelectACategory)} \cup Range(categories[s].v),
          price \in AddPriceInputs :
         IF valid_details(product_name, category, price[1], price[2], price[3])
         THEN /\ LET new == assign(data[s], product_name,
                                   ProductDetails(category, price[1], price[2], price[3]))
                 IN /\ data' = [data EXCEPT ![s] = new]
                    /\ productsFile' = save_data(new)
              /\ Finish(s, "Add New Product", "Add Product", "success")
         ELSE /\ Finish(s, "Add New Product", "Add Product", "error")
              /\ UNCHANGED <<data, productsFile>>
    /\ UNCHANGED <<categoriesFile, usersFile, session_state,
                   categories, selected_category, query>>

\* lines 300-324, the Update Product button pressed
UpdateProduct(s) ==
    /\ pc[s] = "main"
    /\ authenticated[s]
    /\ "Update Product" \in MenuOptions(role[s])
    /\ role[s] = Admin
    /\ \E c \in Range(categories[s].v) :
         LET products_in_category == FilterDict(data[s], CategoryIs(data[s], c)) IN
         /\ Truthy(c)
         /\ Truthy(products_in_category)
         /\ \E selected_product \in KeySet(products_in_category),
               new_category \in CategoryNames, price \in UpdatePriceInputs :
              /\ Len(selected_product) > 0
              /\ LET new == assign(data[s], selected_product,
                                   ProductDetails(PyStr(new_category),
                                                  price[1], price[2], price[3]))
                 IN /\ data' = [data EXCEPT ![s] = new]
                    /\ productsFile' = save_data(new)
              /\ selected_category' = [selected_category EXCEPT ![s] = c]
              /\ Finish(s, "Update Product", "Update Product", "success")
    /\ UNCHANGED <<categoriesFile, usersFile, session_state, categories, query>>

\* lines 417-428, the Add Category button pressed
AddCategory(s) ==
    /\ pc[s] = "main"
    /\ authenticated[s]
    /\ "Manage Categories" \in MenuOptions(role[s])
    /\ role[s] = Admin
    /\ \E new_category \in CategoryInputs :
         IF Len(new_category) > 0 /\ ~ListHas(categories[s], PyStr(new_category))
         THEN /\ LET new == ListAppend(categories[s], PyStr(new_category)) IN
                 /\ categories' = [categories EXCEPT ![s] = new]
                 /\ categoriesFile' = save_data(PyDict(<< <<K_categories, new>> >>))
              /\ Finish(s, "Manage Categories", "Add Category", "success")
         ELSE /\ Finish(s, "Manage Categories", "Add Category",
                        IF ListHas(categories[s], PyStr(new_category))
                        THEN "warning" ELSE "error")
              /\ UNCHANGED <<categories, categoriesFile>>
    /\ UNCHANGED <<productsFile, usersFile, session_state,
                   data, selected_category, query>>

\* lines 430-436, the Delete Category button pressed: up to the first save
DeleteCategory(s) ==
    /\ pc[s] = "main"
    /\ authenticated[s]
    /\ "Manage Categories" \in MenuOptions(role[s])
    /\ role[s] = Admin
    /\ Truthy(categories[s])
    /\ \E c \in Range(categories[s].v) :
         LET new == FilterDict(data[s], CategoryIsNot(data[s], c)) IN
         /\ selected_category' = [selected_category EXCEPT ![s] = c]
         /\ categories' = [categories EXCEPT ![s] = ListRemove(categories[s], c)]
         /\ data' = [data EXCEPT ![s] = new]
         /\ productsFile' = save_data(new)
    /\ pc' = [pc EXCEPT ![s] = "del_mid"]
    /\ main_menu_choice' = [main_menu_choice EXCEPT ![s] = "Manage Categories"]
    /\ clicked' = [clicked EXCEPT ![s] = "Delete Category"]
    /\ UNCHANGED <<categoriesFile, usersFile, session_state, message, query>>

\* lines 437-438: the second save
DeleteCategorySave(s) ==
    /\ pc[s] = "del_mid"
    /\ categoriesFile' = save_data(PyDict(<< <<K_categories, categories[s]>> >>))
    /\ pc' = [pc EXCEPT ![s] = "done"]
    /\ message' = [message EXCEPT ![s] = "success"]
    /\ UNCHANGED <<productsFile, usersFile, session_state, data, categories,
                   main_menu_choice, selected_category, clicked, query>>

\* ------------------------------------------------------------------------
\* The Query Product Price page (lines 150-189)
\* ------------------------------------------------------------------------
UpperChars == <<"A", "B", "C", "D", "E", "F", "G", "H", "I", "J", "K", "L", "M",
                "N", "O", "P", "Q", "R", "S", "T", "U", "V", "W", "X", "Y", "Z">>
LowerChars == <<"a", "b", "c", "d", "e", "f", "g", "h", "i", "j", "k", "l", "m",
                "n", "o", "p", "q", "r", "s", "t", "u", "v", "w", "x", "y", "z">>

MapChar(c, from, to) ==
    IF \E i \in 1..Len(from) : from[i] = c
    THEN to[CHOOSE i \in 1..Len(from) : from[i] = c]
    ELSE c

\* str.lower, str.upper
lower(str) == [i \in 1..Len(str) |-> MapChar(str[i], UpperChars, LowerChars)]
upper(str) == [i \in 1..Len(str) |-> MapChar(str[i], LowerChars, UpperChars)]

\* str.strip
RECURSIVE strip(_)
strip(str) ==
    IF Len(str) = 0 THEN str
    ELSE IF str[1] = " " THEN strip(Tail(str))
    ELSE IF str[Len(str)] = " " THEN strip(SubSeq(str, 1, Len(str) - 1))
    ELSE str

\* a similarity score is a float in [0, 100]: whole + frac / (MaxFrac + 1)
ScoreWholes == {0, 49, 50, 85}
Scores == [whole : ScoreWholes, frac : 0..MaxFrac]
ScoreGreater(a, b) == a.whole > b.whole \/ (a.whole = b.whole /\ a.frac > b.frac)
Threshold == 50
AboveThreshold(a) == a.whole > Threshold \/ (a.whole = Threshold /\ a.frac > 0)
\* similarity_score >= 50
AtLeastThreshold(a) == a.whole >= Threshold
\* int(score)
int(a) == a.whole

InsertMatchUnstable(sorted, m) ==
    LET ahead == {i \in 1..Len(sorted) : ScoreGreater(sorted[i][2], m[2])}
        n == Cardinality(ahead)
    IN SubSeq(sorted, 1, n) \o <<m>> \o SubSeq(sorted, n + 1, Len(sorted))

\* list.sort(key=lambda x: x[1], reverse=True): stable, equal keys keep their order
InsertMatch(sorted, m) ==
    LET ahead == {i \in 1..Len(sorted) : ~ScoreGreater(m[2], sorted[i][2])}
        n == Cardinality(ahead)
    IN SubSeq(sorted, 1, n) \o <<m>> \o SubSeq(sorted, n + 1, Len(sorted))

RECURSIVE SortMatches(_, _)
SortMatches(matches, n) ==
    IF n = 0 THEN <<>> ELSE InsertMatch(SortMatches(matches, n - 1), matches[n])

\* lines 174-178: the candidates in the order of data.keys()
RECURSIVE CollectMatches(_, _, _)
CollectMatches(names, sim, i) ==
    IF i > Len(names) THEN <<>>
    ELSE (IF AtLeastThreshold(sim[names[i]]) THEN << <<names[i], sim[names[i]]>> >> ELSE <<>>)
         \o CollectMatches(names, sim, i + 1)

PriceLine(name, details) ==
    <<name, DictGet(details, K_purchase_price), DictGet(details, K_selling_price)>>

NoOutput == [kind |-> "none", header |-> <<>>, lines |-> <<>>, score |-> 0]

\* lines 159-163
category_matches_first(d, q) ==
    LET all == {i \in 1..Len(d.v) : lower(DictGet(d.v[i][2], K_category).v) = lower(q)}
    IN FilterDict(d, {i \in all : \A j \in all : i <= j})

category_matches(d, q) ==
    FilterDict(d, {i \in 1..Len(d.v) : lower(DictGet(d.v[i][2], K_category).v) = lower(q)})

\* lines 150-189, the Search button pressed
Search(s) ==
    /\ pc[s] = "query"
    /\ LET q == strip(query_input) IN
       IF ~Truthy(data[s])
       THEN /\ output' = [NoOutput EXCEPT !.kind = "empty"]
            /\ query_input' = q
            /\ UNCHANGED calls
            /\ Finish(s, "Query Product Price", "Search", "warning")
       ELSE LET matching == category_matches(data[s], q)
            IN IF Truthy(matching)
               THEN /\ query_input' = upper(q)
                    /\ output' = [kind |-> "category", header |-> upper(q),
                                  lines |-> [i \in 1..Len(matching.v) |->
                                               PriceLine(matching.v[i][1], matching.v[i][2])],
                                  score |-> 0]
                    /\ UNCHANGED calls
                    /\ Finish(s, "Query Product Price", "Search", "none")
               ELSE LET matches == CollectMatches(DictKeys(data[s]), similarity, 1)
                        sorted == SortMatches(matches, Len(matches))
                    IN /\ query_input' = q
                       /\ calls' = calls + Len(data[s].v)
                       /\ IF Len(matches) > 0
                          THEN /\ output' = [kind |-> "single", header |-> <<>>,
                                             lines |-> << PriceLine(sorted[1][1],
                                                            DictGet(data[s], sorted[1][1])) >>,
                                             score |-> int(sorted[1][2])]
                               /\ Finish(s, "Query Product Price", "Search", "none")
                          ELSE /\ output' = [NoOutput EXCEPT !.kind = "nomatch"]
                               /\ Finish(s, "Query Product Price", "Search", "warning")
    /\ UNCHANGED <<files, session_state, data, categories, selected_category, similarity>>

\* ------------------------------------------------------------------------
\* Initial states
\* ------------------------------------------------------------------------
\* a file whose write was cut short: json.load raises JSONDecodeError
Truncated(file) == FileOf(SubSeq(file.text, 1, Len(file.text) \div 2))

StockedProducts ==
    save_data(PyDict(<< <<<<"p">>, ProductDetails(PyStr(<<"a">>), 12, 12, 12)>> >>))
StockedCategories ==
    save_data(PyDict(<< <<K_categories, PyList(<<PyStr(<<"a">>)>>)>> >>))
StockedUsers ==
    save_data(PyDict(<< <<S_Admin, UserRecord(S_1234, Admin)>>,
                        <<<<"u">>, UserRecord(<<"x">>, PyStr(S_User))>> >>))

InitialFiles ==
    { <<MissingFile, MissingFile, MissingFile>>,
      <<StockedProducts, StockedCategories, StockedUsers>>,
      <<Truncated(StockedProducts), Truncated(StockedCategories), Truncated(StockedUsers)>>,
      <<Truncated(StockedProducts), StockedCategories, MissingFile>> }

InitSessions ==
    /\ authenticated = [s \in Sessions |-> FALSE]
    /\ username = [s \in Sessions |-> PyNone]
    /\ role = [s \in Sessions |-> PyNone]
    /\ categories = [s \in Sessions |-> EmptyList]
    /\ main_menu_choice = [s \in Sessions |-> ""]
    /\ selected_category = [s \in Sessions |-> PyNone]
    /\ clicked = [s \in Sessions |-> ""]
    /\ message = [s \in Sessions |-> "none"]

InitQuery ==
    /\ query_input = <<>>
    /\ similarity = <<>>
    /\ calls = 0
    /\ output = NoOutput

Init ==
    /\ \E f \in InitialFiles :
         /\ productsFile = f[1]
         /\ categoriesFile = f[2]
         /\ usersFile = f[3]
    /\ InitSessions
    /\ pc = [s \in Sessions |-> "start"]
    /\ data = [s \in Sessions |-> EmptyDict]
    /\ InitQuery

Step(s) ==
    \/ LoadProducts(s)
    \/ LoadCategories(s)
    \/ CreateDefaultAdmin(s)
    \/ Login(s)
    \/ RenderLogin(s)
    \/ Logout(s)
    \/ RenderPage(s)
    \/ CreateUser(s)
    \/ GenerateCSV(s)
    \/ AddProduct(s)
    \/ UpdateProduct(s)
    \/ AddCategory(s)
    \/ DeleteCategory(s)
    \/ DeleteCategorySave(s)
    \/ Return(s)

\* one browser session: its runs follow one another (request / response)
Next == Step(1)

Spec == Init /\ [][Next]_vars

\* two browser sessions of administrators on a stocked shop: Streamlit runs
\* the script of each session in its own thread, so the runs interleave at
\* their file accesses
InitConcurrent ==
    /\ productsFile =
         save_data(PyDict(<< <<<<"p">>, ProductDetails(PyStr(<<"a">>), 12, 12, 12)>>,
                             <<<<"q">>, ProductDetails(PyStr(<<"b">>), 0, 7, 105)>> >>))
    /\ categoriesFile =
         save_data(PyDict(<< <<K_categories, PyList(<<PyStr(<<"a">>), PyStr(<<"b">>)>>)>> >>))
    /\ usersFile = StockedUsers
    /\ authenticated = [s \in Sessions |-> TRUE]
    /\ username = [s \in Sessions |-> Admin]
    /\ role = [s \in Sessions |-> Admin]
    /\ categories = [s \in Sessions |-> EmptyList]
    /\ main_menu_choice = [s \in Sessions |-> ""]
    /\ selected_category = [s \in Sessions |-> PyNone]
    /\ clicked = [s \in Sessions |-> ""]
    /\ message = [s \in Sessions |-> "none"]
    /\ pc = [s \in Sessions |-> "start"]
    /\ data = [s \in Sessions |-> EmptyDict]
    /\ InitQuery

NextConcurrent ==
    \E s \in Sessions :
        \/ LoadProducts(s)
        \/ LoadCategories(s)
        \/ CreateDefaultAdmin(s)
        \/ AddCategory(s)
        \/ DeleteCategory(s)
        \/ DeleteCategorySave(s)
        \/ Return(s)

SpecConcurrent == InitConcurrent /\ [][NextConcurrent]_vars

\* the Query page as a function of the catalog, the text and the scores
QueryNames == <<<<"p">>, <<"q">>>>
QueryCategories == {<<>>, <<"a">>, <<"A">>, <<"b">>}
QueryTexts == {<<>>, <<" ">>, <<"a">>, <<" ", "A", " ">>, <<"c">>}
QueryProduct(n, c) == <<QueryNames[n], ProductDetails(PyStr(c), 10 * n + 1, 10 * n + 2, 10 * n + 3)>>
QueryCatalogs ==
    {EmptyDict}
    \cup {PyDict(<<QueryProduct(n, c)>>) : n \in 1..2, c \in QueryCategories}
    \cup {PyDict(<<QueryProduct(n, c), QueryProduct(3 - n, d)>>) :
             n \in 1..2, c \in QueryCategories, d \in QueryCategories}

InitLookup ==
    /\ productsFile = MissingFile
    /\ categoriesFile = MissingFile
    /\ usersFile = MissingFile
    /\ InitSessions
    /\ pc = [s \in Sessions |-> IF s = 1 THEN "query" ELSE "start"]
    /\ \E catalog \in QueryCatalogs :
         /\ data = [s \in Sessions |-> IF s = 1 THEN catalog ELSE EmptyDict]
         /\ similarity \in [KeySet(catalog) -> Scores]
    /\ query_input \in QueryTexts
    /\ Len(strip(query_input)) = 0 => \A n \in DOMAIN similarity : similarity[n].whole = 0 /\ similarity[n].frac = 0
    /\ calls = 0
    /\ output = NoOutput

NextLookup == Search(1)

SpecLookup == InitLookup /\ [][NextLookup]_vars
\* ------------------------------------------------------------------------
\* The Query page: C1, C2, C3 (checked under SpecLookup)
\* ------------------------------------------------------------------------
Searched == pc[1] = "done" /\ clicked[1] = "Search"

\* the text of the query, trimmed and lowercased (upper-casing it for the
\* header does not change its lowercase form)
LoweredQuery == lower(strip(query_input))

InCategory(pair) == lower(DictGet(pair[2], K_category).v) = LoweredQuery

HasCategoryMatch == \E i \in 1..Len(data[1].v) : InCategory(data[1].v[i])

ExpectedLines ==
    LET hits == SelectSeq(data[1].v, InCategory)
    IN [i \in 1..Len(hits) |->
          <<hits[i][1], DictGet(hits[i][2], K_purchase_price),
            DictGet(hits[i][2], K_selling_price)>>]

\* C1: when some product's lowercased category equals the lowercased query,
\* the search shows a category match made of exactly the products of that
\* category, in catalog order, each with its purchase and selling price, and
\* fuzz.token_set_ratio is never called.
C1_CategoryMatch ==
    (Searched /\ HasCategoryMatch) =>
        /\ output.kind = "category"
        /\ output.lines = ExpectedLines
        /\ calls = 0

\* a category match that takes one product of two, found through a
\* difference of case
C1_Witness ==
    /\ Searched
    /\ HasCategoryMatch
    /\ Len(data[1].v) = 2
    /\ Len(output.lines) = 1
    /\ output.lines[1][1] = data[1].v[2][1]
    /\ DictGet(data[1].v[2][2], K_category).v # query_input

Qualifies(n) == similarity[n].whole >= 50

\* C2: without a category match the search shows a single match exactly
\* when some product name scores at least 50, and no match otherwise; an
\* empty catalog or an empty query gives no match.
C2_SingleIffThreshold ==
    (Searched /\ ~HasCategoryMatch) =>
        /\ output.kind \in {"single", "nomatch", "empty"}
        /\ output.kind = "single" <=> \E n \in KeySet(data[1]) : Qualifies(n)
        /\ (Len(data[1].v) = 0 \/ Len(query_input) = 0) => output.kind # "single"

\* one name exactly at the threshold, the other just under it
C2_Witness ==
    /\ Searched
    /\ ~HasCategoryMatch
    /\ output.kind = "single"
    /\ \E n, m \in KeySet(data[1]) :
         /\ similarity[n] = [whole |-> 50, frac |-> 0]
         /\ similarity[m] = [whole |-> 49, frac |-> MaxFrac]

IsMaxScore(sc) ==
    /\ \E n \in KeySet(data[1]) : similarity[n] = sc
    /\ \A n \in KeySet(data[1]) : ~ScoreGreater(similarity[n], sc)

FirstWithScore(sc) ==
    LET i == CHOOSE j \in 1..Len(data[1].v) :
                 /\ similarity[data[1].v[j][1]] = sc
                 /\ \A h \in 1..(j - 1) : similarity[data[1].v[h][1]] # sc
    IN data[1].v[i][1]

\* C3 as stated: the score shown with a single match equals the greatest
\* score of the product names, and among the names with that score the first
\* of the catalog is shown.
C3_ScoreIsMaximum ==
    (Searched /\ output.kind = "single") =>
        \E sc \in Scores :
            /\ IsMaxScore(sc)
            /\ sc = [whole |-> output.score, frac |-> 0]
            /\ output.lines[1][1] = FirstWithScore(sc)

\* C3 amended: the score shown is the greatest score rounded down to an
\* integer, and among the names with the greatest score the first of the
\* catalog is shown.
C3_ScoreIsFloorOfMaximum ==
    (Searched /\ output.kind = "single") =>
        \E sc \in Scores :
            /\ IsMaxScore(sc)
            /\ output.score = sc.whole
            /\ AtLeastThreshold(sc)
            /\ output.lines[1][1] = FirstWithScore(sc)

\* two names tie at a greatest score that is not an integer
C3_Witness ==
    /\ Searched
    /\ output.kind = "single"
    /\ Len(data[1].v) = 2
    /\ similarity[data[1].v[1][1]] = similarity[data[1].v[2][1]]
    /\ similarity[data[1].v[1][1]].frac > 0
\* ------------------------------------------------------------------------
\* Delete Category and concurrent readers: C4 (checked under SpecConcurrent)
\* ------------------------------------------------------------------------
CatalogIn(file) == load_data(file)
CategoriesIn(file) == DictGetDefault(load_data(file), K_categories, EmptyList)
StoredCatalog == CatalogIn(productsFile)
StoredCategories == CategoriesIn(categoriesFile)

HasProductOf(catalog, c) ==
    \E i \in 1..Len(catalog.v) : DictGet(catalog.v[i][2], K_category) = c

\* C4 as stated: a session that loads while another session is deleting
\* category c never pairs the catalog written by the delete (the products of
\* c gone) with a category list that still has c.
C4_AtomicDelete ==
    [][\A s, t \in Sessions :
          ( /\ s # t
            /\ pc[t] = "del_mid"
            /\ data[s] = StoredCatalog
            /\ ~HasProductOf(data[s], selected_category[t])
            /\ pc[s] = "ld1" /\ pc'[s] = "ld2" )
          => ~ListHas(categories'[s], selected_category[t])]_vars

\* C4 amended: deleting c first rewrites the stored catalog without any
\* product of category c (the other loaded products are kept and the stored
\* list is not yet touched), then a second write rewrites the stored category
\* list without c.
C4_TwoWrites ==
    [][\A t \in Sessions :
          /\ (pc[t] = "main" /\ pc'[t] = "del_mid") =>
                LET c == selected_category'[t]
                    NotOfC(pair) == DictGet(pair[2], K_category) # c
                IN /\ ~HasProductOf(CatalogIn(productsFile'), c)
                   /\ CatalogIn(productsFile').v = SelectSeq(data[t].v, NotOfC)
                   /\ ListHas(categories[t], c)
                   /\ categoriesFile' = categoriesFile
          /\ (pc[t] = "del_mid" /\ pc'[t] = "done") =>
                /\ ~ListHas(CategoriesIn(categoriesFile'), selected_category[t])
                /\ productsFile' = productsFile]_vars

\* another session has loaded between the two writes of the delete of "a":
\* product p of category a is gone from its catalog, a is still in its list
C4_Witness ==
    \E s, t \in Sessions :
        /\ s # t
        /\ pc[t] = "del_mid"
        /\ selected_category[t] = PyStr(<<"a">>)
        /\ pc[s] = "ld2"
        /\ ~DictHas(data[s], <<"p">>)
        /\ DictHas(data[s], <<"q">>)
        /\ ListHas(categories[s], PyStr(<<"a">>))
\* ------------------------------------------------------------------------
\* One session: C5 - C10 (checked under Spec)
\* ------------------------------------------------------------------------
FourFields == <<K_category, K_purchase_price, K_dealer_price, K_selling_price>>

Price(details, k) == DictGet(details, k).v

\* the catalogs differ at most in the product n
SameExcept(old, new, n) ==
    /\ KeySet(new) \ {n} = KeySet(old) \ {n}
    /\ \A k \in KeySet(old) \ {n} : DictGet(new, k) = DictGet(old, k)

\* C5: pressing Add Product either stores one product (non-empty name, a
\* category of the list, the three prices > 0) and leaves every other product
\* and the category list alone, or shows an error and leaves both stores
\* exactly as they were.
C5_AddProductValidated ==
    [][(pc[1] = "main" /\ clicked'[1] = "Add Product") =>
          \/ /\ message'[1] = "success"
             /\ categoriesFile' = categoriesFile
             /\ \A old \in {StoredCatalog}, new \in {CatalogIn(productsFile')} :
                   \E n \in KeySet(new) :
                     LET details == DictGet(new, n) IN
                     /\ Len(n) > 0
                     /\ ListHas(categories[1], DictGet(details, K_category))
                     /\ DictGet(details, K_category) # PyStr(S_SelectACategory)
                     /\ Price(details, K_purchase_price) > 0
                     /\ Price(details, K_dealer_price) > 0
                     /\ Price(details, K_selling_price) > 0
                     /\ SameExcept(old, new, n)
          \/ /\ message'[1] = "error"
             /\ productsFile' = productsFile
             /\ categoriesFile' = categoriesFile]_vars

\* a second product has just been added
C5_Witness ==
    /\ pc[1] = "done"
    /\ clicked[1] = "Add Product"
    /\ message[1] = "success"
    /\ Len(StoredCatalog.v) = 2

\* C6: a step takes a product name out of the stored catalog only if it is
\* the Delete Category button; every other step changes at most one product,
\* and Update Product keeps the names and gives the product it changes a
\* record of exactly the four fields.
C6_OnlyDeleteRemoves ==
    [][\/ productsFile' = productsFile
       \/ (pc[1] = "main" /\ clicked'[1] = "Delete Category")
       \/ \A old \in {StoredCatalog}, new \in {CatalogIn(productsFile')} :
             /\ KeySet(old) \subseteq KeySet(new)
             /\ \E n \in NameInputs : SameExcept(old, new, n)
             /\ (pc[1] = "main" /\ clicked'[1] = "Update Product") =>
                   /\ KeySet(new) = KeySet(old)
                   /\ \A n \in KeySet(old) : DictKeys(DictGet(new, n)) = FourFields]_vars

\* the second of two products has just been updated, the first is as it was
C6_Witness ==
    /\ pc[1] = "done"
    /\ clicked[1] = "Update Product"
    /\ Len(StoredCatalog.v) = 2
    /\ Price(StoredCatalog.v[1][2], K_selling_price) = 12
    /\ Price(StoredCatalog.v[2][2], K_selling_price) = 105

Unreadable(file) == ~file.exists \/ ~JsonLoad(file.text).ok

C8_RoundTrip ==
    /\ pc[1] \in {"ld1", "ld2", "main", "del_mid", "done"} => StoredCatalog = data[1]
    /\ pc[1] \in {"ld2", "main", "done"} => StoredCategories = categories[1]

\* two products and two categories have been saved, one price has three digits
C8_Witness ==
    /\ pc[1] = "done"
    /\ clicked[1] = "Update Product"
    /\ Len(data[1].v) = 2
    /\ Len(categories[1].v) = 2
    /\ \E i \in 1..2 : Price(data[1].v[i][2], K_selling_price) = 105

ReferentialIntegrity ==
    \A catalog \in {StoredCatalog}, list \in {StoredCategories} :
        \A i \in 1..Len(catalog.v) :
            ListHas(list, DictGet(catalog.v[i][2], K_category))

\* C9: once every stored product has a category of the stored category list,
\* no step of the session ends that.
C9_ReferentialIntegrity ==
    [][ReferentialIntegrity =>
          \A catalog \in {CatalogIn(productsFile')}, list \in {CategoriesIn(categoriesFile')} :
              \A i \in 1..Len(catalog.v) :
                  ListHas(list, DictGet(catalog.v[i][2], K_category))]_vars

StoredUsers == load_data(usersFile)

\* the session is logged in to an account that the users file makes an Admin
AdminSession ==
    /\ authenticated[1]
    /\ role[1] = Admin
    /\ username[1] # PyNone
    /\ DictHas(StoredUsers, username[1].v)
    /\ DictGet(DictGet(StoredUsers, username[1].v), K_role) = Admin

\* C10: the products file and the categories file change only in a run of a
\* session logged in as an Admin; so does the users file, except that any run
\* may add the default account "Admin" when it is missing.
C10_OnlyAdminWrites ==
    [][/\ (productsFile' # productsFile \/ categoriesFile' # categoriesFile) => AdminSession
       /\ usersFile' # usersFile =>
             \/ AdminSession
             \/ /\ ~DictHas(StoredUsers, S_Admin)
                /\ load_data(usersFile') =
                      PyDict(Append(StoredUsers.v, <<S_Admin, UserRecord(S_1234, Admin)>>))]_vars

\* a session of role User has pressed a button of one of its pages
C10_Witness ==
    /\ authenticated[1]
    /\ role[1] = PyStr(S_User)
    /\ pc[1] = "done"
    /\ clicked[1] = "Generate CSV"
    /\ Len(StoredCatalog.v) > 0

\* ------------------------------------------------------------------------
\* The Query page and the sidebar: C11 (checked under Spec)
\* ------------------------------------------------------------------------
\* C11: in an authenticated session the navigation choice is one of the
\* entries offered to the role of the session (six for Admin, two otherwise),
\* no entry is "Query Product Price", and the branch of the Query page is
\* never entered: no search is made, nothing is scored, nothing is shown.
C11_LookupUnreachable ==
    /\ Len(AdminMenu) = 6 /\ Len(UserMenu) = 2
    /\ "Query Product Price" \notin Range(AdminMenu) \cup Range(UserMenu)
    /\ (authenticated[1] /\ main_menu_choice[1] # "") =>
          main_menu_choice[1] \in MenuOptions(role[1])
    /\ main_menu_choice[1] # "" => authenticated[1]
    /\ pc[1] # "query"
    /\ clicked[1] # "Search"
    /\ calls = 0
    /\ output = NoOutput

\* a user of role User looks at the stocked catalog: the products the lookup
\* would search are there, the sidebar offers the two entries of the role
C11_Witness ==
    /\ authenticated[1]
    /\ role[1] = PyStr(S_User)
    /\ pc[1] = "done"
    /\ main_menu_choice[1] = "All Products"
    /\ clicked[1] = ""
    /\ Len(data[1].v) > 0
====
